---- MODULE Spec2Model ----
(***************************************************************************)
(* A model of package errtags (HitoriSensei/error-tags).                   *)
(*                                                                         *)
(* A *Tag is a heap object {causer, msg, tags, msgOverride}.  Its identity *)
(* is its address; sort() orders member lists by address, and Go does not  *)
(* promise any relation between allocation order and address, so every     *)
(* allocation picks any free address.  The heap is a function from the     *)
(* allocated addresses to the objects.                                     *)
(*                                                                         *)
(* Error values are integers: nil is 0, a *Tag is its address (1..MaxTags) *)
(* and the untagged errors of the callers (errors.New of pkg/errors) are   *)
(* the negative numbers of BaseErrors.                                     *)
(***************************************************************************)
EXTENDS Integers, Sequences, FiniteSets, TLC

VARIABLES heap, last

vars == <<heap, last>>

\* Bounds of the model.
MaxTags == 3        \* number of *Tag objects that can be allocated
MaxArgs == 2        \* longest variadic argument list (tags ...*Tag)

\* The nil error / nil pointer.
nil == 0

Addr == 1..MaxTags

\* Untagged errors owned by the caller: errors.New("some error") and
\* errors.New("other error") of github.com/pkg/errors.
BaseErrors == {-1, -2}

ErrorText(b) == IF b = -1 THEN "some error" ELSE "other error"

\* %+v of a pkg/errors value: the message followed by its stack trace.
FormatText(b) == ErrorText(b) \o "\n<stack>"

\* Argument lists given to NewTag(msg ...string).
NewTagArgs == {<<>>, <<"red tag">>, <<"blue tag">>}

\* Messages given to TagWithMessage / WithTagsAndMessage.
Messages == {"message"}

IsTag(h, err) == err \in DOMAIN h

\* Sequences over S of length at most n.
SeqUpTo(S, n) == UNION {[1..k -> S] : k \in 0..n}

Range(s) == {s[i] : i \in DOMAIN s}

----------------------------------------------------------------------------
\* strings.Join(msg, sep)
RECURSIVE Join(_, _)
Join(parts, sep) ==
    IF Len(parts) = 0 THEN ""
    ELSE IF Len(parts) = 1 THEN parts[1]
    ELSE parts[1] \o sep \o Join(Tail(parts), sep)

\* getAllTags: depth-first walk over tags and their members, skipping every
\* address already in seen.  Returns the collected list and the final seen set
\* (seen is a *map shared by the whole recursion).
RECURSIVE getAllTags(_, _, _)
getAllTags(h, tags, seen) ==
    IF Len(tags) = 0 THEN [all |-> <<>>, seen |-> seen]
    ELSE LET tag == Head(tags) IN
         IF tag \in seen
         THEN getAllTags(h, Tail(tags), seen)
         ELSE LET inner == getAllTags(h, h[tag].tags, seen \cup {tag})
                  rest  == getAllTags(h, Tail(tags), inner.seen)
              IN [all |-> <<tag>> \o inner.all \o rest.all, seen |-> rest.seen]

\* uniq: keeps the first occurrence of every element.
RECURSIVE uniq(_)
uniq(tags) ==
    IF Len(tags) = 0 THEN <<>>
    ELSE LET front == uniq(SubSeq(tags, 1, Len(tags) - 1))
             x     == tags[Len(tags)]
         IN IF x \in Range(front) THEN front ELSE Append(front, x)

\* A sort that leaves the flattened list in first-seen order.
SortFuncUnsorted(s) == s

\* slices.SortFunc by pointer value (insertion of each element in its place).
RECURSIVE SortFunc(_)
SortFunc(s) ==
    IF Len(s) = 0 THEN <<>>
    ELSE LET m    == CHOOSE x \in Range(s) : \A y \in Range(s) : x - y <= 0
             rest == SelectSeq(s, LAMBDA x : x # m)
             same == SelectSeq(s, LAMBDA x : x = m)
         IN same \o SortFunc(rest)

\* sort: flatten, deduplicate, order by address.
sort(h, tags) == SortFunc(uniq(getAllTags(h, tags, {}).all))

\* Capacity of the slice sort returns: uniq makes it with
\* cap = len(getAllTags(...)) and appends the unique elements.
sortCap(h, tags) == Len(getAllTags(h, tags, {}).all)

----------------------------------------------------------------------------
\* Methods of *Tag.  The receiver t is the struct the pointer refers to; an
\* argument or causer of type error is nil, an untagged error or the address
\* of a *Tag.

\* Tag.message
RECURSIVE messageFrom(_, _, _)
messageFrom(h, tags, i) ==
    IF i > Len(tags) THEN ""
    ELSE (IF h[tags[i]].msg # ""
          THEN h[tags[i]].msg \o (IF i < Len(tags) THEN ": " ELSE "")
          ELSE "")
         \o messageFrom(h, tags, i + 1)

\* A message that ignores the explicit-message flag.
messageDerivedOnly(h, t) == messageFrom(h, t.tags, 1)

message(h, t) ==
    IF t.msgOverride THEN t.msg ELSE messageFrom(h, t.tags, 1)

\* Tag.Error; errError is err.Error() of any non-nil error value.
RECURSIVE Error(_, _), errError(_, _)
Error(h, t) ==
    IF t.causer = nil THEN message(h, t)
    ELSE message(h, t) \o ": " \o errError(h, t.causer)

errError(h, err) == IF IsTag(h, err) THEN Error(h, h[err]) ELSE ErrorText(err)

\* Tag.Format: what is written to the sink; errFormat is the Format of any
\* non-nil error value (*Tag and pkg/errors values are fmt.Formatters).
RECURSIVE Format(_, _), errFormat(_, _)
Format(h, t) ==
    (IF message(h, t) # "" THEN message(h, t) \o ": " ELSE "")
    \o (IF t.causer # nil THEN errFormat(h, t.causer) ELSE "")

errFormat(h, err) == IF IsTag(h, err) THEN Format(h, h[err]) ELSE FormatText(err)

\* A containment test that accepts a subject shorter than the pattern when its
\* first member occurs in the pattern.
isSubSliceEitherWay(sliceA, capA, sliceB) ==
    IF Len(sliceB) = 0 THEN "panic"
    ELSE IF \E i \in 1..Len(sliceA) : sliceA[i] = sliceB[1] THEN "true"
    ELSE IF Len(sliceA) > 0 /\ \E i \in 1..Len(sliceB) : sliceB[i] = sliceA[1]
         THEN "true"
    ELSE "false"

\* isSubSlice(sliceA, sliceB); capA is cap(sliceA).  The outcome is "true",
\* "false" or "panic" (index out of range on sliceB[0], slice bounds out of
\* range on sliceA[i:i+len(sliceB)]).  Elements of the backing array past
\* len(sliceA) are the zero value.
isSubSlice(sliceA, capA, sliceB) ==
    IF Len(sliceB) > Len(sliceA) THEN "false"
    ELSE IF Len(sliceB) = 0 THEN "panic"
    ELSE LET first == sliceB[1]
             hits  == {i \in 1..Len(sliceA) : sliceA[i] = first}
         IN IF hits = {} THEN "false"
            ELSE LET i    == CHOOSE k \in hits : \A l \in hits : k <= l
                     subA == [j \in 1..Len(sliceB) |->
                                 IF i - 1 + j <= Len(sliceA)
                                 THEN sliceA[i - 1 + j] ELSE nil]
                 IN IF i - 1 + Len(sliceB) > capA THEN "panic"
                    ELSE IF subA = sliceB THEN "true" ELSE "false"

\* A match that also accepts tags with equal messages.
IsTaggedOrSameMessage(t, other) ==
    IF t.msg = other.msg THEN "true" ELSE isSubSlice(t.tags, t.cap, other.tags)

\* The body of Tag.Is once err is known to be the *Tag other.
IsTagged(t, other) == isSubSlice(t.tags, t.cap, other.tags)

\* Tag.Is
Is(h, t, err) == IF IsTag(h, err) THEN IsTagged(t, h[err]) ELSE "false"

\* Equal(a, b): a.Is(b) && b.Is(a)
Equal(a, b) ==
    IF IsTagged(a, b) # "true" THEN IsTagged(a, b) ELSE IsTagged(b, a)

\* Tag.Cause / Tag.Unwrap
Cause(t) == t.causer

Unwrap(t) == t.causer

\* Tag.Tags
Tags(t) == t.tags

\* errors.Is(err, target) as assert.ErrorIs uses it: walks the Unwrap chain,
\* at each layer comparing by identity and then asking the layer's Is method;
\* an untagged error has neither Is nor Unwrap.
RECURSIVE ErrorIs(_, _, _)
ErrorIs(h, err, target) ==
    IF err = nil \/ target = nil THEN (IF err = target THEN "true" ELSE "false")
    ELSE IF err = target THEN "true"
    ELSE IF ~IsTag(h, err) THEN "false"
    ELSE IF Is(h, h[err], target) # "false" THEN Is(h, h[err], target)
    ELSE ErrorIs(h, Unwrap(h[err]), target)

----------------------------------------------------------------------------
\* The objects the constructors and wrappers build.

\* NewTag(msg...)'s object, allocated at a.
NewTagObject(msg, a) ==
    [causer |-> nil,
     msg |-> IF Len(msg) > 0 THEN Join(msg, ": ") ELSE "",
     tags |-> <<a>>, cap |-> 1, msgOverride |-> FALSE]

\* e.Tag(err)'s object, for err # nil.
TagObject(e, err) ==
    [causer |-> err, msg |-> e.msg, tags |-> e.tags, cap |-> e.cap,
     msgOverride |-> FALSE]

\* e.TagWithMessage(err, msg)'s object, for err # nil.
TagWithMessageObject(e, err, msg) ==
    [causer |-> err, msg |-> msg, tags |-> e.tags, cap |-> e.cap,
     msgOverride |-> TRUE]

\* WithTags(err, tags...)'s object, for err # nil.
WithTagsObject(h, err, tags) ==
    [causer |-> err, msg |-> "", tags |-> sort(h, tags), cap |-> sortCap(h, tags),
     msgOverride |-> FALSE]

\* WithTagsAndMessage(err, msg, tags...)'s object, for err # nil.
WithTagsAndMessageObject(h, err, msg, tags) ==
    [WithTagsObject(h, err, tags) EXCEPT !.msg = msg, !.msgOverride = TRUE]

\* UnionTag(tag, tags...)'s object.
UnionTagObject(h, tag, tags) ==
    [causer |-> nil, msg |-> "",
     tags |-> sort(h, Append(tags, tag)), cap |-> sortCap(h, Append(tags, tag)),
     msgOverride |-> FALSE]

\* An Include that extends a copy and leaves e as it was.
IncludeObjectUnchanged(h, e, tags) == e

\* e after e.Include(tags...).
IncludeObject(h, e, tags) ==
    [e EXCEPT !.tags = sort(h, e.tags \o tags),
              !.cap = sortCap(h, e.tags \o tags)]

----------------------------------------------------------------------------
\* The last call: operation, receiver, error argument and returned value.
Call(op, self, err, ret) == [op |-> op, self |-> self, err |-> err, ret |-> ret]

Free(h) == Addr \ DOMAIN h

\* A wrap without the nil check.
WrapResultsNoNilCheck(h, err) == Free(h)

\* Where a wrap of err returns: nil for a nil err, else a fresh address.
WrapResults(h, err) == IF err = nil THEN {nil} ELSE Free(h)

Alloc(h, a, obj) == IF a = nil THEN h ELSE h @@ (a :> obj)

Init ==
    /\ heap = <<>>
    /\ last = Call("init", nil, nil, nil)

\* NewTag(msg ...string) returning a.
NewTagCall(msg, a) ==
    /\ a \in Free(heap)
    /\ heap' = Alloc(heap, a, NewTagObject(msg, a))
    /\ last' = Call("NewTag", nil, nil, a)

\* (e *Tag) Tag(err error) error, returning r.
TagCall(e, err, r) ==
    /\ r \in WrapResults(heap, err)
    /\ heap' = Alloc(heap, r, TagObject(heap[e], err))
    /\ last' = Call("Tag", e, err, r)

\* (e *Tag) TagWithMessage(err error, msg string) error, returning r.
TagWithMessageCall(e, err, msg, r) ==
    /\ r \in WrapResults(heap, err)
    /\ heap' = Alloc(heap, r, TagWithMessageObject(heap[e], err, msg))
    /\ last' = Call("TagWithMessage", e, err, r)

\* WithTags(err error, tags ...*Tag) error, returning r.
WithTagsCall(err, tags, r) ==
    /\ r \in WrapResults(heap, err)
    /\ heap' = Alloc(heap, r, WithTagsObject(heap, err, tags))
    /\ last' = Call("WithTags", nil, err, r)

\* WithTagsAndMessage(err error, msg string, tags ...*Tag) error, returning r.
WithTagsAndMessageCall(err, msg, tags, r) ==
    /\ r \in WrapResults(heap, err)
    /\ heap' = Alloc(heap, r, WithTagsAndMessageObject(heap, err, msg, tags))
    /\ last' = Call("WithTagsAndMessage", nil, err, r)

\* UnionTag(tag *Tag, tags ...*Tag) *Tag, returning a.
UnionTagCall(tag, tags, a) ==
    /\ a \in Free(heap)
    /\ heap' = Alloc(heap, a, UnionTagObject(heap, tag, tags))
    /\ last' = Call("UnionTag", nil, nil, a)

\* (e *Tag) Include(tags ...*Tag) *Tag
IncludeCall(e, tags) ==
    /\ heap' = [heap EXCEPT ![e] = IncludeObject(heap, heap[e], tags)]
    /\ last' = Call("Include", e, nil, e)

----------------------------------------------------------------------------
\* Kinds of objects on the heap.
Bare(h) == {a \in DOMAIN h : h[a].causer = nil}

Tagged(h) == {a \in DOMAIN h : h[a].causer # nil}

Atomic(h) == {a \in DOMAIN h : h[a].causer = nil /\ h[a].tags = <<a>>}

\* Error arguments the callers pass to the wraps: nil, their own errors and
\* errors that are already tagged.
Errors(h) == {nil} \cup BaseErrors \cup Tagged(h)

\* Argument lists for the variadic tags ...*Tag parameters.
TagLists(h) == SeqUpTo(Bare(h), MaxArgs)

NewTag == \E msg \in NewTagArgs, a \in Free(heap) : NewTagCall(msg, a)

Tag ==
    \E e \in DOMAIN heap, err \in Errors(heap) :
        \E r \in WrapResults(heap, err) : TagCall(e, err, r)

TagWithMessage ==
    \E e \in DOMAIN heap, err \in Errors(heap), msg \in Messages :
        \E r \in WrapResults(heap, err) : TagWithMessageCall(e, err, msg, r)

WithTags ==
    \E err \in Errors(heap), tags \in TagLists(heap) :
        \E r \in WrapResults(heap, err) : WithTagsCall(err, tags, r)

WithTagsAndMessage ==
    \E err \in Errors(heap), msg \in Messages, tags \in TagLists(heap) :
        \E r \in WrapResults(heap, err) : WithTagsAndMessageCall(err, msg, tags, r)

UnionTag ==
    \E a \in Free(heap), tag \in Bare(heap), tags \in TagLists(heap) :
        UnionTagCall(tag, tags, a)

Include == \E e \in Bare(heap), tags \in TagLists(heap) : IncludeCall(e, tags)

Next ==
    \/ NewTag
    \/ Tag
    \/ TagWithMessage
    \/ WithTags
    \/ WithTagsAndMessage
    \/ UnionTag
    \/ Include

Spec == Init /\ [][Next]_vars

\* The tag algebra alone: construction, union, extension and plain wraps.
NextMatch ==
    \/ NewTag
    \/ Tag
    \/ UnionTag
    \/ Include

SpecMatch == Init /\ [][NextMatch]_vars

----------------------------------------------------------------------------
\* The callers of TestUnion and TestInclude: tags with messages, unions of
\* bare tags, Include on freshly made tags, and wraps of one untagged error.
AlgebraArgs == {<<"red tag">>, <<"blue tag">>}

AtomicLists(h) == SeqUpTo(Atomic(h), MaxArgs)

AlgebraNewTag == \E msg \in AlgebraArgs, a \in Free(heap) : NewTagCall(msg, a)

AlgebraTag == \E e \in Bare(heap), r \in Free(heap) : TagCall(e, -1, r)

AlgebraInclude ==
    \E e \in Atomic(heap), tags \in AtomicLists(heap) : IncludeCall(e, tags)

NextAlgebra ==
    \/ AlgebraNewTag
    \/ AlgebraTag
    \/ UnionTag
    \/ AlgebraInclude

SpecAlgebra == Init /\ [][NextAlgebra]_vars

\* The callers of TestUnion alone: no tag is extended after it is made.
NextUnion ==
    \/ AlgebraNewTag
    \/ AlgebraTag
    \/ UnionTag

SpecUnion == Init /\ [][NextUnion]_vars

\* The callers of the wrapping tests: atomic tags with and without messages,
\* wraps of nil, of an untagged error and of already tagged errors.
WrapErrors(h) == {nil, -1} \cup Tagged(h)

WrapTag ==
    \E e \in Bare(heap), err \in WrapErrors(heap) :
        \E r \in WrapResults(heap, err) : TagCall(e, err, r)

WrapTagWithMessage ==
    \E e \in Bare(heap), err \in WrapErrors(heap), msg \in Messages :
        \E r \in WrapResults(heap, err) : TagWithMessageCall(e, err, msg, r)

WrapWithTags ==
    \E err \in WrapErrors(heap), tags \in AtomicLists(heap) :
        \E r \in WrapResults(heap, err) : WithTagsCall(err, tags, r)

WrapWithTagsAndMessage ==
    \E err \in WrapErrors(heap), msg \in Messages, tags \in AtomicLists(heap) :
        \E r \in WrapResults(heap, err) : WithTagsAndMessageCall(err, msg, tags, r)

NextWrap ==
    \/ NewTag
    \/ WrapTag
    \/ WrapTagWithMessage
    \/ WrapWithTags
    \/ WrapWithTagsAndMessage

SpecWrap == Init /\ [][NextWrap]_vars

\* The callers of TestColors, TestSameMessage and TestWithMessage: wraps by
\* one tag only.
NextIdentity ==
    \/ NewTag
    \/ WrapTag
    \/ WrapTagWithMessage

SpecIdentity == Init /\ [][NextIdentity]_vars

\* The callers of TestMessage, TestWithMessage and TestWithTagsAndMessage:
\* every wrap that gives the error a message.
NextMessage ==
    \/ NewTag
    \/ WrapTag
    \/ WrapTagWithMessage
    \/ WrapWithTagsAndMessage

SpecMessage == Init /\ [][NextMessage]_vars

----------------------------------------------------------------------------
\* Every member list fills its backing array, and members are allocated.
TypeOK ==
    \A a \in DOMAIN heap :
        /\ heap[a].cap = Len(heap[a].tags)
        /\ Range(heap[a].tags) \subseteq DOMAIN heap
        /\ heap[a].causer \in {nil} \cup BaseErrors \cup DOMAIN heap

----------------------------------------------------------------------------
\* Helpers of the properties.

\* All orderings of the set S as argument lists.
Perms(S) == {p \in [1..Cardinality(S) -> S] : Range(p) = S}

\* Messages an explicit-message wrap may be given.
AnyMessage == {"", "red tag"}

\* Non-nil error values a wrap may be given.
NonNil(h) == BaseErrors \cup DOMAIN h

\* The errors e.Tag(err) and e.TagWithMessage(err, m) return for the tag
\* struct e and the callers' untagged errors.
TaggedWith(h, e) ==
    {TagObject(e, err) : err \in BaseErrors}
    \cup {TagWithMessageObject(e, err, m) : err \in BaseErrors, m \in AnyMessage}

\* The untagged errors in the cause chain of err.
RECURSIVE CauseChain(_, _)
CauseChain(h, err) ==
    IF err = nil THEN {}
    ELSE IF ~IsTag(h, err) THEN {err}
    ELSE CauseChain(h, h[err].causer)

WrapOps == {"Tag", "TagWithMessage", "WithTags", "WithTagsAndMessage"}

----------------------------------------------------------------------------
C2_IsNeverPanics ==
    \A s \in DOMAIN heap, p \in DOMAIN heap :
        Is(heap, heap[s], p) \in {"true", "false"}

\* C3: matching goes by identity, never by message: distinct atomic tags never
\* match one another whatever their messages, an error tagged with one of them
\* matches that tag and not the other, and a tagged error matches an untagged
\* error only when that error is in its cause chain.
C3_IdentityNotMessage ==
    /\ \A a \in Atomic(heap), b \in Atomic(heap) :
          a # b =>
            /\ Is(heap, heap[a], b) = "false"
            /\ \A t \in TaggedWith(heap, heap[a]) :
                  /\ Is(heap, t, a) = "true"
                  /\ Is(heap, t, b) = "false"
            /\ \A r \in Tagged(heap) :
                  (heap[r].tags = <<a>> /\ heap[r].causer \in BaseErrors) =>
                      /\ ErrorIs(heap, r, a) = "true"
                      /\ ErrorIs(heap, r, b) = "false"
    /\ \A r \in Tagged(heap), u \in BaseErrors :
          /\ Is(heap, heap[r], u) = "false"
          /\ (ErrorIs(heap, r, u) = "true") <=> (u \in CauseChain(heap, r))

\* Two distinct atomic tags with the same message, and an error just tagged
\* with one of them.
C3_Witness ==
    \E a \in Atomic(heap), b \in Atomic(heap) :
        /\ a # b
        /\ heap[a].msg = heap[b].msg
        /\ heap[a].msg # ""
        /\ last.op = "Tag"
        /\ last.self = a
        /\ last.ret # nil
        /\ last.err \in BaseErrors
        /\ ErrorIs(heap, last.ret, a) = "true"
        /\ ErrorIs(heap, last.ret, b) = "false"

\* C4: matching is directional.  For distinct atomic tags A and B and
\* U = UnionTag(A, B), an error tagged with U, with or without a message
\* override, matches A, B and U, while the bare tags A and B and the errors
\* tagged with only A or only B do not match U.
C4_Directional ==
    \A A \in Atomic(heap), B \in Atomic(heap) :
        A # B =>
          \A U \in {UnionTagObject(heap, A, <<B>>)} :
            /\ \A t \in TaggedWith(heap, U) :
                  /\ Is(heap, t, A) = "true"
                  /\ Is(heap, t, B) = "true"
                  /\ IsTagged(t, U) = "true"
            /\ IsTagged(heap[A], U) = "false"
            /\ IsTagged(heap[B], U) = "false"
            /\ \A t \in TaggedWith(heap, heap[A]) \cup TaggedWith(heap, heap[B]) :
                  IsTagged(t, U) = "false"
            /\ \A u \in Bare(heap), r \in Tagged(heap) :
                  heap[u] = U =>
                    /\ (heap[r].tags = U.tags => Is(heap, heap[r], u) = "true")
                    /\ (heap[r].tags = <<A>> => Is(heap, heap[r], u) = "false")

\* The union of two distinct atomic tags was just built and is on the heap.
C4_Witness ==
    \E A \in Atomic(heap), B \in Atomic(heap) :
        /\ A # B
        /\ last.op = "UnionTag"
        /\ heap[last.ret] = UnionTagObject(heap, A, <<B>>)
        /\ Is(heap, TagObject(heap[last.ret], -1), A) = "true"
        /\ Is(heap, TagObject(heap[A], -1), last.ret) = "false"

\* C5: unions do not depend on argument order.  For every set of atomic tags,
\* the union built from any ordering of it has the same member sequence and
\* the same derived message as the union built from one reference ordering
\* (so any two orderings agree), the two match each other in both directions,
\* and an error tagged with either matches both.
C5_OrderIndependent ==
    \A S \in SUBSET Atomic(heap) :
        (S # {} /\ Cardinality(S) <= MaxArgs + 1) =>
          \A q \in {CHOOSE o \in Perms(S) : TRUE} :
            \A U2 \in {UnionTagObject(heap, Head(q), Tail(q))}, p \in Perms(S) :
              \A U1 \in {UnionTagObject(heap, Head(p), Tail(p))} :
               /\ Tags(U1) = Tags(U2)
               /\ message(heap, U1) = message(heap, U2)
               /\ IsTagged(U1, U2) = "true"
               /\ IsTagged(U2, U1) = "true"
               /\ \A t \in TaggedWith(heap, U1) :
                     /\ IsTagged(t, U1) = "true"
                     /\ IsTagged(t, U2) = "true"
               /\ \A t \in TaggedWith(heap, U2) : IsTagged(t, U1) = "true"
               /\ (last.op = "UnionTag" /\ Range(heap[last.ret].tags) = S)
                     => heap[last.ret] = U1

\* A union of two atomic tags with different messages was just built.
C5_Witness ==
    \E A \in Atomic(heap), B \in Atomic(heap) :
        /\ heap[A].msg # heap[B].msg
        /\ last.op = "UnionTag"
        /\ Range(heap[last.ret].tags) = {A, B}
        /\ heap[last.ret] = UnionTagObject(heap, A, <<B>>)
        /\ heap[last.ret] = UnionTagObject(heap, B, <<A>>)

\* C6: unions do not depend on nesting.  For atomic tags A, B, C the members
\* of UnionTag(UnionTag(A, B), C) are those of UnionTag(A, B, C), atomic tags
\* only, and the two unions match each other.
C6_NestingIndependent ==
    \A A \in Atomic(heap), B \in Atomic(heap), C \in Atomic(heap),
       u \in Bare(heap) :
        (A # B /\ heap[u] = UnionTagObject(heap, A, <<B>>)) =>
          LET nested == UnionTagObject(heap, u, <<C>>)
              flat   == UnionTagObject(heap, A, <<B, C>>)
          IN /\ Tags(nested) = Tags(flat)
             /\ Range(Tags(nested)) \subseteq Atomic(heap)
             /\ Equal(nested, flat) = "true"

\* What C7 says of the heap h in which A.Include(B) has returned, for atomic
\* tags A and B of the heap before: A and the union of A and B, built before
\* (U0) or after the call, match each other, A matches B, an error tagged
\* with A matches A, B and the union, and an error tagged with only B does
\* not match A.
IncludeConverged(h, A, B, U0) ==
    \A U \in {U0, UnionTagObject(h, A, <<B>>)} :
        /\ IsTagged(h[A], U) = "true"
        /\ IsTagged(U, h[A]) = "true"
        /\ Equal(h[A], U) = "true"
        /\ Is(h, h[A], B) = "true"
        /\ \A t \in TaggedWith(h, h[A]) :
              /\ Is(h, t, A) = "true"
              /\ Is(h, t, B) = "true"
              /\ IsTagged(t, U) = "true"
        /\ \A t \in TaggedWith(h, h[B]) : Is(h, t, A) = "false"

\* C7: Include convergence.  A.Include(B) returns A itself and, for atomic
\* tags A and B, leaves A match-equal to UnionTag(A, B).
C7_IncludeConvergence ==
    /\ last.op = "Include" => last.ret = last.self
    /\ \A A \in Atomic(heap), B \in Atomic(heap) :
          A # B =>
            \A h \in {[heap EXCEPT ![A] = IncludeObject(heap, heap[A], <<B>>)]},
               U0 \in {UnionTagObject(heap, A, <<B>>)} :
                IncludeConverged(h, A, B, U0)
    /\ \A A \in Bare(heap), B \in Atomic(heap) :
          (last.op = "Include" /\ last.ret = A /\ A # B
             /\ Range(heap[A].tags) = {A, B}) =>
            \A U0 \in {UnionTagObject(heap, B, <<A>>)} :
                IncludeConverged(heap, A, B, U0)

\* A.Include(B) has just returned for two tags that were atomic, and a union
\* of the two is on the heap.
C7_Witness ==
    \E A \in Bare(heap), B \in Atomic(heap), u \in Bare(heap) :
        /\ last.op = "Include"
        /\ last.ret = A
        /\ A # B
        /\ u \notin {A, B}
        /\ Range(heap[A].tags) = {A, B}
        /\ Range(heap[u].tags) = {A, B}
        /\ Is(heap, heap[A], u) = "true"
        /\ Is(heap, heap[u], A) = "true"

\* C8: wrapping an absent error yields absent.  Every wrap called with a nil
\* error returns nil and allocates nothing, and every error a wrap returns has
\* the wrapped error as its cause.
C8_NilAbsorbing ==
    [][ (last'.op \in WrapOps /\ last'.err = nil
            => last'.ret = nil /\ heap' = heap)
        /\ (last'.op \in WrapOps /\ last'.ret # nil
            => /\ last'.ret \notin DOMAIN heap
               /\ heap'[last'.ret].causer = last'.err
               /\ heap'[last'.ret].causer # nil) ]_vars

\* A wrap has just been called with a nil error on a heap that holds a tag.
C8_Witness ==
    /\ last.op = "WithTagsAndMessage"
    /\ last.err = nil
    /\ last.ret = nil
    /\ Atomic(heap) # {}
    /\ \A a \in DOMAIN heap : heap[a].causer = nil

\* C9: message-less transparency.  When the wrapping tag's own message is
\* empty, Error() of the wrap is the cause's Error() and what Format writes is
\* what the cause's Format writes.
C9_MessagelessTransparent ==
    (last.op = "Tag" /\ last.ret # nil /\ message(heap, heap[last.self]) = "") =>
        /\ Error(heap, heap[last.ret]) = errError(heap, last.err)
        /\ Format(heap, heap[last.ret]) = errFormat(heap, last.err)

\* C10: message composition.  Error() of t.Tag(err), for an atomic tag t made
\* with the non-empty message m, is m, ": " and err.Error(), also when err is
\* itself a tagged error; Error() of TagWithMessage with the message m2 is m2,
\* ": " and err.Error() whatever the tag's own message, and so is Error() of
\* every error WithTagsAndMessage has returned.
C10_MessageComposition ==
    /\ \A t \in Atomic(heap), err \in NonNil(heap) :
          heap[t].msg # "" =>
            Error(heap, TagObject(heap[t], err))
                = heap[t].msg \o ": " \o errError(heap, err)
    /\ \A t \in DOMAIN heap, err \in NonNil(heap), m2 \in AnyMessage :
          Error(heap, TagWithMessageObject(heap[t], err, m2))
              = m2 \o ": " \o errError(heap, err)
    /\ (last.op = "Tag" /\ last.ret # nil /\ last.self \in Atomic(heap)
           /\ heap[last.self].msg # "") =>
          Error(heap, heap[last.ret])
              = heap[last.self].msg \o ": " \o errError(heap, last.err)
    /\ (last.op \in {"TagWithMessage", "WithTagsAndMessage"} /\ last.ret # nil) =>
          Error(heap, heap[last.ret])
              = heap[last.ret].msg \o ": " \o errError(heap, last.err)

\* An atomic tag with a message has just wrapped an error that is itself a
\* tagged error with a message: the outermost message comes first.
C10_Witness ==
    /\ last.op = "Tag"
    /\ last.ret # nil
    /\ last.self \in Atomic(heap)
    /\ heap[last.self].msg = "red tag"
    /\ last.err \in Tagged(heap)
    /\ Error(heap, heap[last.ret]) = "red tag: red tag: some error"

----------------------------------------------------------------------------
\* The heap h with two more layers on it: inner is t.Tag(b) and outer is
\* s.Tag(inner).  The layers take addresses no tag has.
InnerLayer == MaxTags + 1

OuterLayer == MaxTags + 2

Layered(h, t, s, b) ==
    (InnerLayer :> TagObject(h[t], b))
        @@ (OuterLayer :> TagObject(h[s], InnerLayer)) @@ h

BareOps == {"NewTag", "UnionTag", "Include"}

\* C11: cause preservation.  Cause and Unwrap of every error a wrap returns
\* are the wrapped error, a bare tag has no cause, and for all tags s and t
\* and every untagged error b the stack s.Tag(t.Tag(b)) unwraps layer by
\* layer to b and matches b, t and s.
C11_CausePreserved ==
    /\ (last.op \in WrapOps /\ last.ret # nil) =>
          /\ Cause(heap[last.ret]) = last.err
          /\ Unwrap(heap[last.ret]) = last.err
    /\ last.op \in BareOps => Cause(heap[last.ret]) = nil
    /\ \A r \in Tagged(heap) : \A u \in CauseChain(heap, r) :
          ErrorIs(heap, r, u) = "true"
    /\ \A t \in Bare(heap), s \in Bare(heap), b \in BaseErrors :
          \A h \in {Layered(heap, t, s, b)} :
            /\ Cause(h[InnerLayer]) = b
            /\ Unwrap(h[OuterLayer]) = InnerLayer
            /\ Unwrap(h[Unwrap(h[OuterLayer])]) = b
            /\ CauseChain(h, OuterLayer) = {b}
            /\ ErrorIs(h, OuterLayer, b) = "true"
            /\ ErrorIs(h, InnerLayer, t) = "true"
            /\ ErrorIs(h, OuterLayer, s) = "true"
            /\ ErrorIs(h, OuterLayer, t) = "true"

----------------------------------------------------------------------------
\* The msg fields of the members tags, in the order of tags.
MemberMessages(h, tags) == [i \in 1..Len(tags) |-> h[tags[i]].msg]

\* C12: the derived message.  The message of every tag and tagged error
\* without an explicit message is the non-empty messages of its members, in
\* the order of the member list, joined by ": ": nothing is written for a
\* member with an empty message, wherever it stands in the list.
C12_DerivedMessage ==
    \A a \in DOMAIN heap :
        ~heap[a].msgOverride =>
            message(heap, heap[a])
                = Join(SelectSeq(MemberMessages(heap, heap[a].tags),
                                 LAMBDA m : m # ""), ": ")

----------------------------------------------------------------------------
\* C13: Tag copies the message state of its receiver.  Every error self.Tag
\* returns has the members, the msg, the explicit-message flag and so the own
\* message of self, also when self was made by TagWithMessage or
\* WithTagsAndMessage, and the call leaves self as it was.
C13_TagCopiesMessageState ==
    [][ (last'.op = "Tag" /\ last'.ret # nil) =>
            /\ Tags(heap'[last'.ret]) = Tags(heap[last'.self])
            /\ heap'[last'.ret].msg = heap[last'.self].msg
            /\ heap'[last'.ret].msgOverride = heap[last'.self].msgOverride
            /\ message(heap', heap'[last'.ret]) = message(heap, heap[last'.self])
            /\ heap'[last'.self] = heap[last'.self] ]_vars

----------------------------------------------------------------------------
\* C14: matching is stable under later extension.  Every tagged error that
\* carries the members of the tag t, as the errors t.Tag and t.TagWithMessage
\* return do, and matches t, still matches t after each t.Include(...).
C14_StableUnderInclude ==
    [][ last'.op = "Include" =>
            \A e \in Tagged(heap) :
                (Tags(heap[e]) = Tags(heap[last'.self])
                    /\ ErrorIs(heap, e, last'.self) = "true")
                  => ErrorIs(heap', e, last'.self) = "true" ]_vars
====
